---- MODULE Spec2Model ----
(***************************************************************************)
(* SwiftAid (src/index.tsx): the session state machine, the route          *)
(* animator and the live audio bridge of the SwiftAidApp component.        *)
(*                                                                         *)
(* Units.  Coordinates are integers in 1e-5 degrees.  Segment progress is  *)
(* an integer in thousandths (stepSize 0.002 is 2): the 500th IEEE double  *)
(* sum of 0.002 is 1.0000000000000007 >= 1, so the float test              *)
(* `nextProgress >= 1` first succeeds on the 500th tick of a segment, as   *)
(* the integer test does.  Audio time (AudioContext.currentTime, buffer    *)
(* durations, the playback cursor) is counted in output samples, i.e. in   *)
(* units of 1/24000 s (OUTPUT_SAMPLE_RATE).                                 *)
(*                                                                         *)
(* Specifications.  The call handlers never touch the animator's state and *)
(* the animator never touches the call state, so the component is checked  *)
(* in slices, each one a set of behaviours of the whole program:           *)
(*   Spec         session phases, calls and the audio bridge, in runs      *)
(*                where the geolocation reading has not arrived;           *)
(*   FairSpec     the timers, the user's taps, the geolocation reading and *)
(*                the set-up of the bridge, with the timers' fairness, in  *)
(*                runs without audio traffic;                              *)
(*   SpecRoute    session phases, geolocation and the route animator, in   *)
(*                runs where the user places or answers no call;           *)
(*   SpecHandlers the same steps with triggerSOS callable from any phase   *)
(*                (the handler's own contract, without the view's guard);  *)
(*   SpecPcm      the PCM sample conversions of the audio bridge.          *)
(***************************************************************************)
EXTENDS Integers, Sequences, FiniteSets

(* ---- bounds of the model ---- *)
\* MaxBlocks: audio blocks handled in a run, captured and received together
MaxCalls == 2
MaxBlocks == 2
MaxBytes == 4
MaxClock == 1
MaxTimers == 2
SubLsb == 2

(* ---- program constants ---- *)
\* stepSize = 0.002, in thousandths of a segment
stepSize == 2
\* progress 1.0 in thousandths
ProgressOne == 1000
\* eta = useState(7)
InitialEta == 7
\* Int16Array element width and the capture/decode scale 32768 = 2^15
Int16Bits == 16
PcmScale == 32768

VARIABLES
  appState, isIncomingCall, isCalling, isVideoActive, aiSuggestions,
  dispatchTimers, incomingTimers,
  eta, location, ambulancePos, ambulanceBearing, fullRoute,
  currentRouteIndex, progressInSegment, animationTimer, geoPending, ticks,
  apiKey, audioContextRef, outputAudioContextRef, closedContexts,
  currentTime, nextStartTimeRef, sessions, scheduled, sent, videoSrcObject,
  pcmStage, sample, int16, bytes, channelData

sessionVars == <<appState, isIncomingCall, isCalling, isVideoActive,
                 aiSuggestions, dispatchTimers, incomingTimers>>
routeVars == <<eta, location, ambulancePos, ambulanceBearing, fullRoute,
               currentRouteIndex, progressInSegment, geoPending, ticks>>
audioVars == <<audioContextRef, outputAudioContextRef, closedContexts,
               currentTime, nextStartTimeRef, sessions, scheduled, sent,
               videoSrcObject>>
pcmVars == <<pcmStage, sample, int16, bytes, channelData>>
vars == <<sessionVars, routeVars, animationTimer, apiKey, audioVars, pcmVars>>

Max(a, b) == IF a >= b THEN a ELSE b

\* Math.ceil(a / b) for b > 0
Ceil(a, b) == -((-a) \div b)

(* ---- initial state: the component's useState/useRef initial values ---- *)

\* [51.505, -0.09] and [51.515, -0.11] in 1e-5 degrees
DefaultLocation == <<5150500, -9000>>
DefaultAmbulancePos == <<5151500, -11000>>

InitApp ==
  /\ appState = "idle"
  /\ isIncomingCall = FALSE
  /\ isCalling = FALSE
  /\ isVideoActive = FALSE
  /\ aiSuggestions = <<>>
  /\ dispatchTimers = 0
  /\ incomingTimers = 0
  /\ eta = InitialEta
  /\ location = DefaultLocation
  /\ ambulancePos = DefaultAmbulancePos
  /\ ambulanceBearing = 0
  /\ fullRoute = <<>>
  /\ currentRouteIndex = 0
  /\ progressInSegment = 0
  /\ animationTimer = FALSE
  /\ geoPending = TRUE
  /\ ticks = 0
  /\ audioContextRef = 0
  /\ outputAudioContextRef = 0
  /\ closedContexts = {}
  /\ currentTime = 0
  /\ nextStartTimeRef = 0
  /\ sessions = <<>>
  /\ scheduled = <<>>
  /\ sent = 0
  /\ videoSrcObject = 0

InitPcmIdle ==
  /\ pcmStage = "off"
  /\ sample = 0
  /\ int16 = 0
  /\ bytes = <<0, 0>>
  /\ channelData = 0

\* process.env.API_KEY is fixed by the build: present or absent for the whole run
Init ==
  /\ InitApp
  /\ InitPcmIdle
  /\ apiKey \in BOOLEAN

(* ---- route animation effect ---- *)

\* the effect's condition: an interval is running exactly when it holds
\* (fullRoute is 1-based here, currentRouteIndex keeps the source's 0-based value)
AnimationEffect(phase, idx, route) ==
  phase = "active" /\ idx < Len(route) - 1

(* ---- session state machine ---- *)

\* a variant with one entry missing
TwoTips == <<
  [title |-> "Apply Direct Pressure", category |-> "Trauma"],
  [title |-> "Elevate Area", category |-> "Trauma"] >>

FirstAidTips == <<
  [title |-> "Apply Direct Pressure", category |-> "Trauma"],
  [title |-> "Elevate Area", category |-> "Trauma"],
  [title |-> "Monitor Airways", category |-> "Critical"] >>

\* triggerSOS: setAppState('emergency') and setTimeout(..., 2500)
triggerSOS ==
  /\ dispatchTimers < MaxTimers
  /\ appState' = "emergency"
  /\ dispatchTimers' = dispatchTimers + 1
  /\ animationTimer' = AnimationEffect("emergency", currentRouteIndex, fullRoute)
  /\ UNCHANGED <<isIncomingCall, isCalling, isVideoActive, aiSuggestions,
                 incomingTimers, routeVars, apiKey, audioVars, pcmVars>>

\* the SOS button exists only in the idle view
SosButton ==
  /\ appState = "idle"
  /\ triggerSOS

\* the 2500 ms callback of triggerSOS
DispatchTimer ==
  /\ dispatchTimers > 0
  /\ incomingTimers < MaxTimers
  /\ dispatchTimers' = dispatchTimers - 1
  /\ appState' = "active"
  /\ aiSuggestions' = FirstAidTips
  /\ incomingTimers' = incomingTimers + 1
  /\ animationTimer' = AnimationEffect("active", currentRouteIndex, fullRoute)
  /\ UNCHANGED <<isIncomingCall, isCalling, isVideoActive,
                 routeVars, apiKey, audioVars, pcmVars>>

\* the 3000 ms callback: setIsIncomingCall(true)
IncomingCallTimer ==
  /\ incomingTimers > 0
  /\ incomingTimers' = incomingTimers - 1
  /\ isIncomingCall' = TRUE
  /\ UNCHANGED <<appState, isCalling, isVideoActive, aiSuggestions,
                 dispatchTimers, routeVars, animationTimer, apiKey,
                 audioVars, pcmVars>>

(* ---- audio bridge: session setup ---- *)

\* initLiveSession, up to its first await.  The n-th bridge creates the
\* contexts 2n-1 (capture) and 2n (playback), the latter with its clock at 0;
\* the closure's isVideoActive is the value of the render that created the
\* handler (the unprimed one): it is what getUserMedia is asked for (video).
\* withVideo records what startCall was called with, i.e. the value it has
\* just passed to setIsVideoActive.
OpenBridge ==
  /\ audioContextRef' = 2 * Len(sessions) + 1
  /\ outputAudioContextRef' = 2 * Len(sessions) + 2
  /\ currentTime' = 0
  /\ sessions' = Append(sessions,
        [stage |-> "getUserMedia", video |-> isVideoActive, capture |-> 0,
         withVideo |-> isVideoActive'])
  /\ UNCHANGED <<closedContexts, nextStartTimeRef, scheduled, sent,
                 videoSrcObject>>

\* a variant without the credential check
initLiveSessionUnchecked == OpenBridge

\* if (!process.env.API_KEY) return;
initLiveSession ==
  IF ~apiKey
  THEN UNCHANGED audioVars
  ELSE OpenBridge

startCall(withVideo) ==
  /\ isCalling' = TRUE
  /\ isVideoActive' = withVideo
  /\ initLiveSession
  /\ UNCHANGED <<appState, aiSuggestions, dispatchTimers, incomingTimers,
                 routeVars, animationTimer, apiKey, pcmVars>>

acceptCall ==
  /\ isIncomingCall' = FALSE
  /\ startCall(TRUE)

declineCall ==
  /\ isIncomingCall' = FALSE
  /\ UNCHANGED <<appState, isCalling, isVideoActive, aiSuggestions,
                 dispatchTimers, incomingTimers, routeVars, animationTimer,
                 apiKey, audioVars, pcmVars>>

\* AudioContext.close() on both refs; the refs keep pointing at the closed contexts
endCall ==
  /\ isCalling' = FALSE
  /\ isVideoActive' = FALSE
  /\ closedContexts' = closedContexts \cup
        ({audioContextRef, outputAudioContextRef} \ {0})
  /\ UNCHANGED <<appState, isIncomingCall, aiSuggestions, dispatchTimers,
                 incomingTimers, routeVars, animationTimer, apiKey,
                 audioContextRef, outputAudioContextRef, currentTime,
                 nextStartTimeRef, sessions, scheduled, sent, videoSrcObject,
                 pcmVars>>

(* ---- the view: which handler the user can reach in which state ---- *)

\* the call overlay (z 4000) and the incoming-call overlay (z 3000) cover the
\* whole container, so the controls beneath them cannot be tapped
CanOpenBridge == Len(sessions) < MaxCalls

PhoneButton ==
  /\ appState = "active"
  /\ ~isIncomingCall
  /\ ~isCalling
  /\ CanOpenBridge
  /\ startCall(FALSE)
  /\ UNCHANGED isIncomingCall

AcceptButton ==
  /\ appState = "active"
  /\ isIncomingCall
  /\ ~isCalling
  /\ CanOpenBridge
  /\ acceptCall

DeclineButton ==
  /\ appState = "active"
  /\ isIncomingCall
  /\ ~isCalling
  /\ declineCall

EndCallButton ==
  /\ appState = "active"
  /\ isCalling
  /\ endCall

VideoToggleButton ==
  /\ appState = "active"
  /\ isCalling
  /\ isVideoActive' = ~isVideoActive
  /\ UNCHANGED <<appState, isIncomingCall, isCalling, aiSuggestions,
                 dispatchTimers, incomingTimers, routeVars, animationTimer,
                 apiKey, audioVars, pcmVars>>

(* ---- audio bridge: asynchronous continuations of initLiveSession ---- *)

\* the <video> element is mounted iff the call overlay shows the video branch
videoRefCurrent == isCalling /\ isVideoActive

\* getUserMedia resolves: bind the stream if asked, then ai.live.connect(...)
GetUserMediaResolved(i) ==
  /\ sessions[i].stage = "getUserMedia"
  /\ sessions' = [sessions EXCEPT ![i].stage = "connecting"]
  /\ videoSrcObject' = IF videoRefCurrent /\ sessions[i].video
                       THEN i ELSE videoSrcObject
  /\ UNCHANGED <<sessionVars, routeVars, animationTimer, apiKey,
                 audioContextRef, outputAudioContextRef, closedContexts,
                 currentTime, nextStartTimeRef, scheduled, sent, pcmVars>>

\* getUserMedia rejects: catch (e) { console.error(e) }
GetUserMediaRejected(i) ==
  /\ sessions[i].stage = "getUserMedia"
  /\ sessions' = [sessions EXCEPT ![i].stage = "failed"]
  /\ UNCHANGED <<sessionVars, routeVars, animationTimer, apiKey,
                 audioContextRef, outputAudioContextRef, closedContexts,
                 currentTime, nextStartTimeRef, scheduled, sent,
                 videoSrcObject, pcmVars>>

\* onopen: the capture graph is built on whatever audioContextRef holds now
onopen(i) ==
  /\ sessions[i].stage = "connecting"
  /\ sessions' = [sessions EXCEPT ![i].stage = "open",
                                  ![i].capture = audioContextRef]
  /\ UNCHANGED <<sessionVars, routeVars, animationTimer, apiKey,
                 audioContextRef, outputAudioContextRef, closedContexts,
                 currentTime, nextStartTimeRef, scheduled, sent,
                 videoSrcObject, pcmVars>>

\* onaudioprocess: a ScriptProcessorNode gets blocks only while its context runs
onaudioprocess(i) ==
  /\ sessions[i].stage = "open"
  /\ sessions[i].capture \notin closedContexts
  /\ sent + Len(scheduled) < MaxBlocks
  /\ sent' = sent + 1
  /\ UNCHANGED <<sessionVars, routeVars, animationTimer, apiKey,
                 audioContextRef, outputAudioContextRef, closedContexts,
                 currentTime, nextStartTimeRef, sessions, scheduled,
                 videoSrcObject, pcmVars>>

\* a variant that starts every chunk at the clock
StartTimeAtClock(cursor, now) == now

\* the playback cursor after Math.max(nextStartTimeRef.current, ctx.currentTime)
StartTime(cursor, now) == Max(cursor, now)

\* onmessage with inlineData of nBytes decoded bytes.  No data: skipped.  An
\* odd byte count: new Int16Array(bytes.buffer) throws and nothing is scheduled.
\* Otherwise the buffer holds nBytes / 2 samples; creating and starting a
\* source node on a closed context does not throw.
onmessage(i, nBytes) ==
  /\ sessions[i].stage = "open"
  /\ sent + Len(scheduled) < MaxBlocks
  /\ IF nBytes = 0 \/ nBytes % 2 = 1
     THEN UNCHANGED <<nextStartTimeRef, scheduled>>
     ELSE LET start == StartTime(nextStartTimeRef, currentTime)
              duration == nBytes \div 2
          IN /\ scheduled' = Append(scheduled,
                   [start |-> start, duration |-> duration,
                    arrival |-> currentTime, ctx |-> outputAudioContextRef])
             /\ nextStartTimeRef' = start + duration
  /\ UNCHANGED <<sessionVars, routeVars, animationTimer, apiKey,
                 audioContextRef, outputAudioContextRef, closedContexts,
                 currentTime, sessions, sent, videoSrcObject, pcmVars>>

\* the output context's clock runs while the context is open
ClockAdvance ==
  /\ outputAudioContextRef # 0
  /\ outputAudioContextRef \notin closedContexts
  /\ currentTime < MaxClock
  /\ currentTime' = currentTime + 1
  /\ UNCHANGED <<sessionVars, routeVars, animationTimer, apiKey,
                 audioContextRef, outputAudioContextRef, closedContexts,
                 nextStartTimeRef, sessions, scheduled, sent, videoSrcObject,
                 pcmVars>>

\* the timers and the user's taps
NextSession ==
  \/ SosButton
  \/ DispatchTimer
  \/ IncomingCallTimer
  \/ PhoneButton
  \/ AcceptButton
  \/ DeclineButton
  \/ EndCallButton
  \/ VideoToggleButton

Next ==
  \/ NextSession
  \/ \E i \in 1..Len(sessions) : GetUserMediaResolved(i)
  \/ \E i \in 1..Len(sessions) : GetUserMediaRejected(i)
  \/ \E i \in 1..Len(sessions) : onopen(i)
  \/ \E i \in 1..Len(sessions) : onaudioprocess(i)
  \/ \E i \in 1..Len(sessions) : \E nBytes \in 0..MaxBytes : onmessage(i, nBytes)
  \/ ClockAdvance

Spec == Init /\ [][Next]_vars

(* ---- properties of the session state machine and the audio bridge ---- *)

\* C3: every scheduled chunk starts no earlier than the end of the chunk
\* scheduled before it and no earlier than the output clock at its arrival,
\* the cursor is never behind the end of the last chunk, and the cursor never
\* decreases, whatever hang-ups and new calls fall in between.
C3_ChunksNeverOverlap ==
  /\ [](\A k \in 1..Len(scheduled) :
          /\ scheduled[k].start >= scheduled[k].arrival
          /\ k > 1 => scheduled[k].start >=
                        scheduled[k-1].start + scheduled[k-1].duration
          /\ nextStartTimeRef >= scheduled[k].start + scheduled[k].duration)
  /\ [][nextStartTimeRef' >= nextStartTimeRef]_vars

\* two chunks on the contexts of two different calls, the second one held
\* back by the cursor, and one chunk held back by the clock
C3_Witness ==
  /\ Len(scheduled) = 2
  /\ scheduled[1].start = scheduled[1].arrival
  /\ scheduled[1].arrival > 0
  /\ scheduled[2].ctx # scheduled[1].ctx
  /\ scheduled[2].start > scheduled[2].arrival

\* C4: an SOS tap in idle leads to dispatching with the dispatch timer set;
\* the dispatch timer leads to active with exactly 3 tips and the call timer
\* set; the call timer raises the incoming-call flag; the tip list is empty
\* in idle and dispatching; and with fair timers each step eventually happens.
C4_SosScenario ==
  /\ [](appState \in {"idle", "emergency"} => aiSuggestions = << >>)
  /\ [](appState = "active" => Len(aiSuggestions) = 3)
  /\ [](isIncomingCall => appState = "active")
  /\ [][(appState = "idle" /\ appState' # "idle") =>
          (appState' = "emergency" /\ dispatchTimers' = 1)]_vars
  /\ [][(appState = "emergency" /\ appState' # "emergency") =>
          (appState' = "active" /\ Len(aiSuggestions') = 3
           /\ incomingTimers' = 1)]_vars
  /\ [][incomingTimers' < incomingTimers => isIncomingCall']_vars
  /\ (appState = "emergency") ~> (appState = "active" /\ Len(aiSuggestions) = 3)
  /\ (incomingTimers > 0) ~> isIncomingCall

C4_Witness ==
  /\ appState = "active"
  /\ Len(aiSuggestions) = 3
  /\ isIncomingCall
  /\ dispatchTimers = 0
  /\ incomingTimers = 0

\* C6: the incoming-call flag and the connected flag are never both set.
C6_OneCallSubState == ~(isIncomingCall /\ isCalling)

\* C7: triggerSOS called outside idle changes neither the phase nor the tips
\* and schedules no timer.
C7_SosNoOpOutsideIdle ==
  [][(appState # "idle" /\ triggerSOS) =>
       UNCHANGED <<appState, aiSuggestions, dispatchTimers, incomingTimers>>]_vars

\* C8: while no call is up both contexts of the last bridge are closed, and
\* between a hang-up and the next call no captured chunk is sent and no
\* received chunk is scheduled.
C8_TornDownAfterHangUp ==
  /\ [](~isCalling => ({audioContextRef, outputAudioContextRef} \ {0})
                         \subseteq closedContexts)
  /\ [][(~isCalling /\ ~isCalling') =>
          (sent' = sent /\ scheduled' = scheduled)]_vars

\* C9: without the credential a started or accepted call acquires nothing: no
\* context, no microphone request, no remote session, cursor untouched.
C9_NoKeyNoResources ==
  ~apiKey =>
    /\ audioContextRef = 0
    /\ outputAudioContextRef = 0
    /\ sessions = << >>
    /\ nextStartTimeRef = 0
    /\ videoSrcObject = 0

C9_Witness ==
  /\ ~apiKey
  /\ isCalling
  /\ isVideoActive
  /\ ~isIncomingCall

\* C11: when the device grant of the call that is up resolves (credential
\* present, video flag not toggled since the call started), video was
\* requested from the device exactly if the call was started with video, and
\* the stream is bound to the video element exactly in that case.
C11_VideoBoundIffStartedWithVideo ==
  [][\A i \in 1..Len(sessions) :
       (/\ sessions[i].stage = "getUserMedia"
        /\ sessions'[i].stage = "connecting"
        /\ i = Len(sessions)
        /\ isCalling
        /\ isVideoActive = sessions[i].withVideo)
       => (/\ sessions[i].video = sessions[i].withVideo
           /\ (videoSrcObject' = i) <=> sessions[i].withVideo)]_vars

(* ---- route animator ---- *)

\* the mocked street route of the geolocation callback (offsets 0.015, 0.01,
\* 0.005 degrees)
Route(userLoc) ==
  LET startLat == userLoc[1] + 1500
      startLng == userLoc[2] + 1500
  IN << <<startLat, startLng>>,
        <<startLat, userLoc[2] + 1000>>,
        <<userLoc[1] + 500, userLoc[2] + 1000>>,
        <<userLoc[1] + 500, userLoc[2]>>,
        userLoc >>

\* positions the geolocation provider may report
UserLocs == { <<0, 0>>, DefaultLocation, <<-3387000, 15121000>> }

\* getBearing, to the nearest whole degree.  The segments of Route are a few
\* hundredths of a degree long and run along a meridian or a parallel, where
\* the initial bearing is 0/180 exactly and 90/270 to within 0.01 degree; the
\* diagonal values stand for the quadrants, which no generated route uses.
getBearing(start, end) ==
  LET dLat == end[1] - start[1]
      dLng == end[2] - start[2]
  IN IF dLng = 0 THEN (IF dLat >= 0 THEN 0 ELSE 180)
     ELSE IF dLat = 0 THEN (IF dLng > 0 THEN 90 ELSE 270)
     ELSE IF dLng > 0 THEN (IF dLat > 0 THEN 45 ELSE 135)
     ELSE (IF dLat > 0 THEN 315 ELSE 225)

\* start + (end - start) * nextProgress, component-wise
Interpolate(start, end, nextProgress) ==
  << start[1] + ((end[1] - start[1]) * nextProgress) \div ProgressOne,
     start[2] + ((end[2] - start[2]) * nextProgress) \div ProgressOne >>

\* Math.max(1, Math.ceil((remainingSegments - 1 + (1 - nextProgress)) * 3))
Eta(remainingSegments, nextProgress) ==
  Max(1, Ceil(((remainingSegments - 1) * ProgressOne
               + (ProgressOne - nextProgress)) * 3, ProgressOne))

\* getCurrentPosition's success callback (it may also never be called)
GeolocationCallback(userLoc) ==
  /\ geoPending
  /\ geoPending' = FALSE
  /\ location' = userLoc
  /\ fullRoute' = Route(userLoc)
  /\ ambulancePos' = Route(userLoc)[1]
  /\ animationTimer' = AnimationEffect(appState, currentRouteIndex, Route(userLoc))
  /\ UNCHANGED <<sessionVars, eta, ambulanceBearing, currentRouteIndex,
                 progressInSegment, ticks, apiKey, audioVars, pcmVars>>

\* a variant that advances only once progress has passed 1
SegmentDoneStrict(nextProgress) == nextProgress > ProgressOne

\* if (nextProgress >= 1)
SegmentDone(nextProgress) == nextProgress >= ProgressOne

\* one callback of the 30 ms interval, with the re-render and the effect
\* (clearInterval, then a new interval if the condition still holds) it causes
AnimationTick ==
  /\ animationTimer
  /\ ticks' = ticks + 1
  /\ LET start == fullRoute[currentRouteIndex + 1]
         end == fullRoute[currentRouteIndex + 2]
         nextProgress == progressInSegment + stepSize
     IN IF SegmentDone(nextProgress)
        THEN /\ currentRouteIndex' = currentRouteIndex + 1
             /\ progressInSegment' = 0
             /\ animationTimer' =
                  AnimationEffect(appState, currentRouteIndex + 1, fullRoute)
             /\ UNCHANGED <<ambulancePos, ambulanceBearing, eta>>
        ELSE /\ ambulancePos' = Interpolate(start, end, nextProgress)
             /\ ambulanceBearing' = getBearing(start, end)
             /\ eta' = Eta(Len(fullRoute) - 1 - currentRouteIndex, nextProgress)
             /\ progressInSegment' = nextProgress
             /\ UNCHANGED <<currentRouteIndex, animationTimer>>
  /\ UNCHANGED <<sessionVars, location, fullRoute, geoPending, apiKey,
                 audioVars, pcmVars>>

NextRoute ==
  \/ SosButton
  \/ DispatchTimer
  \/ IncomingCallTimer
  \/ \E userLoc \in UserLocs : GeolocationCallback(userLoc)
  \/ AnimationTick

SpecRoute == Init /\ [][NextRoute]_vars

\* the session state machine with its surroundings: timers, taps, the
\* geolocation reading and the set-up of the bridge, without audio traffic
NextFair ==
  \/ NextSession
  \/ \E userLoc \in UserLocs : GeolocationCallback(userLoc)
  \/ \E i \in 1..Len(sessions) : GetUserMediaResolved(i)
  \/ \E i \in 1..Len(sessions) : GetUserMediaRejected(i)
  \/ \E i \in 1..Len(sessions) : onopen(i)

\* setTimeout callbacks always run; nothing in the component clears them
FairSpec ==
  /\ Init
  /\ [][NextFair]_vars
  /\ WF_vars(DispatchTimer)
  /\ WF_vars(IncomingCallTimer)

\* the handlers as functions: triggerSOS called from any phase
NextHandlers ==
  \/ triggerSOS
  \/ NextFair

SpecHandlers == Init /\ [][NextHandlers]_vars

(* ---- properties of the route animator (SpecRoute) ---- *)

\* ticks of one segment: ceil(1 / step)
TicksPerSegment == Ceil(ProgressOne, stepSize)

\* the animator has walked every segment of a route with at least 2 waypoints
Halted ==
  /\ appState = "active"
  /\ Len(fullRoute) >= 2
  /\ currentRouteIndex = Len(fullRoute) - 1

\* C1: for a route with N >= 2 waypoints the animator halts after exactly
\* (N-1) * 500 ticks: every tick advances the walk by one step, the interval
\* runs in the active phase exactly while fewer than (N-1) * 500 ticks have
\* fired, at the halt the segment index is N-1 and the interval is cleared,
\* and from a halted state no step changes index, progress, pose or tick count.
C1_HaltsAfterAllTicks ==
  /\ [](Len(fullRoute) >= 2 =>
          /\ ticks * stepSize = currentRouteIndex * ProgressOne + progressInSegment
          /\ ticks <= (Len(fullRoute) - 1) * TicksPerSegment
          /\ appState = "active" =>
               (animationTimer <=> ticks < (Len(fullRoute) - 1) * TicksPerSegment)
          /\ Halted <=> (appState = "active"
                         /\ ticks = (Len(fullRoute) - 1) * TicksPerSegment))
  /\ [][Halted => UNCHANGED <<currentRouteIndex, progressInSegment,
                              ambulancePos, ambulanceBearing, ticks,
                              animationTimer>>]_vars

C1_Witness ==
  /\ Halted
  /\ ~animationTimer
  /\ ticks = 4 * TicksPerSegment
  /\ progressInSegment = 0

\* C2: in the active phase the displayed ETA never goes up from one state to
\* the next.
C2_EtaNonIncreasing ==
  [][(appState = "active" /\ appState' = "active") => eta' <= eta]_vars

\* C10: when the animator has halted the vehicle is at the route's last
\* waypoint, the user's location.
C10_HaltedAtLastWaypoint ==
  Halted => (ambulancePos = fullRoute[Len(fullRoute)] /\ ambulancePos = location)

(* ---- PCM sample conversion of the audio bridge (SpecPcm) ---- *)

\* a microphone sample x in [-1, 1] is the integer x * PcmScale * SubLsb
SampleOne == PcmScale * SubLsb
Samples == (-SampleOne)..SampleOne

\* the integer part of a / b, towards zero (ToNumber, then truncation), b > 0
Truncate(a, b) == IF a >= 0 THEN a \div b ELSE -((-a) \div b)

\* storing into an Int16Array: modulo 2^16, into [-2^15, 2^15)
ToInt16(n) ==
  LET m == n % (2 ^ Int16Bits)
  IN IF m >= 2 ^ (Int16Bits - 1) THEN m - 2 ^ Int16Bits ELSE m

\* int16[i] = inputData[i] * 32768: the sample x / (PcmScale * SubLsb) times
\* 32768 is x / SubLsb
EncodeSample(x) == ToInt16(Truncate(x, SubLsb))

\* new Uint8Array(int16.buffer): the two bytes of an element, low byte first
ToBytes(v) ==
  LET u == v % (2 ^ Int16Bits)
  IN << u % 256, u \div 256 >>

\* new Int16Array(bytes.buffer)
FromBytes(b) == ToInt16(b[1] + 256 * b[2])

InitPcm ==
  /\ InitApp
  /\ apiKey = TRUE
  /\ pcmStage = "captured"
  /\ sample \in Samples
  /\ int16 = 0
  /\ bytes = <<0, 0>>
  /\ channelData = 0

\* the capture path of onaudioprocess for one sample
EncodeBlock ==
  /\ pcmStage = "captured"
  /\ pcmStage' = "encoded"
  /\ int16' = EncodeSample(sample)
  /\ bytes' = ToBytes(EncodeSample(sample))
  /\ UNCHANGED <<sessionVars, routeVars, animationTimer, apiKey, audioVars,
                 sample, channelData>>

\* the decode path of onmessage for one sample: channelData[i] = dataInt16[i] / 32768.0,
\* kept as the numerator over PcmScale
DecodeBlock ==
  /\ pcmStage = "encoded"
  /\ pcmStage' = "decoded"
  /\ channelData' = FromBytes(bytes)
  /\ UNCHANGED <<sessionVars, routeVars, animationTimer, apiKey, audioVars,
                 sample, int16, bytes>>

NextPcm ==
  \/ EncodeBlock
  \/ DecodeBlock

SpecPcm == InitPcm /\ [][NextPcm]_vars

Abs(a) == IF a >= 0 THEN a ELSE -a

\* C5: a sample in [-1, 1], the endpoints included, comes back from the
\* 16-bit conversion within 1/32768 of its value.
C5_RoundTripWithinOneLsb ==
  pcmStage = "decoded" => Abs(sample - channelData * SubLsb) <= SubLsb

====
